---- MODULE Spec2Model ----
(***************************************************************************)
(* scripts/sync_quest_recordings.py: pull the recording sessions that are  *)
(* on the headset but not in the local directory, then delete from the     *)
(* headset the sessions that are present locally.                          *)
(*                                                                         *)
(* Text is a sequence of characters, a character is a one-token string:    *)
(* "0".."9", "_", "-", the white space tokens "SP" "TAB" "CR" "LF", the    *)
(* non-ASCII decimal digit "U+0663", and, in the output of `adb devices`,  *)
(* whole words ("device", a serial number).                                *)
(***************************************************************************)
EXTENDS Integers, Sequences, FiniteSets, TLC

\* ------------------------------------------------------------------ bounds

\* Number of distinct valid session names that can be on the headset or in
\* the local directory.
NumSessions == 3

\* Number of device lines `adb devices` prints after its header.
MaxDevLines == 2

\* Number of times the script is started, one run after the other.
MaxRuns == 2

\* ------------------------------------------------------------- characters

AsciiDigits == {"0", "1", "2", "3", "4", "5", "6", "7", "8", "9"}

\* Decimal digits outside ASCII (Unicode category Nd), which \d of a str
\* pattern matches too.
OtherDigits == {"U+0663"}

\* str.strip() and str.split() white space.
WhiteSpace == {"SP", "TAB", "CR", "LF"}

\* Code point of a character, the key sorted() compares strings by.
Code(c) ==
    CASE c = "TAB" -> 9
      [] c = "LF" -> 10
      [] c = "CR" -> 13
      [] c = "SP" -> 32
      [] c = "-" -> 45
      [] c = "0" -> 48
      [] c = "1" -> 49
      [] c = "2" -> 50
      [] c = "3" -> 51
      [] c = "4" -> 52
      [] c = "5" -> 53
      [] c = "6" -> 54
      [] c = "7" -> 55
      [] c = "8" -> 56
      [] c = "9" -> 57
      [] c = "_" -> 95
      [] c = "U+0663" -> 1635
      [] OTHER -> 120

\* a < b for two strings, as Python compares str: by code point, a proper
\* prefix first.
RECURSIVE StrLessFrom(_, _, _)
StrLessFrom(a, b, i) ==
    IF i > Len(b) THEN FALSE
    ELSE IF i > Len(a) THEN TRUE
    ELSE IF Code(a[i]) # Code(b[i]) THEN Code(a[i]) < Code(b[i])
    ELSE StrLessFrom(a, b, i + 1)

StrLess(a, b) == StrLessFrom(a, b, 1)

\* str.splitlines(): break at LF, CR and CR LF; no empty last line.
RECURSIVE SplitLinesFrom(_, _, _, _)
SplitLinesFrom(s, i, cur, acc) ==
    IF i > Len(s) THEN (IF cur = <<>> THEN acc ELSE Append(acc, cur))
    ELSE IF s[i] = "CR" /\ i < Len(s) /\ s[i + 1] = "LF"
         THEN IF i + 1 = Len(s) THEN Append(acc, cur)
              ELSE SplitLinesFrom(s, i + 2, <<>>, Append(acc, cur))
    ELSE IF s[i] \in {"CR", "LF"}
         THEN IF i = Len(s) THEN Append(acc, cur)
              ELSE SplitLinesFrom(s, i + 1, <<>>, Append(acc, cur))
    ELSE SplitLinesFrom(s, i + 1, Append(cur, s[i]), acc)

splitlines(s) == SplitLinesFrom(s, 1, <<>>, <<>>)

\* str.strip(): drop leading and trailing white space.
RECURSIVE lstrip(_)
lstrip(s) ==
    IF s # <<>> /\ Head(s) \in WhiteSpace THEN lstrip(Tail(s)) ELSE s

RECURSIVE rstrip(_)
rstrip(s) ==
    IF s # <<>> /\ s[Len(s)] \in WhiteSpace
    THEN rstrip(SubSeq(s, 1, Len(s) - 1))
    ELSE s

strip(s) == rstrip(lstrip(s))

\* str.replace("\r", "").
IsNotCR(c) == c # "CR"

replaceCR(s) == SelectSeq(s, IsNotCR)

\* str.split(): the maximal runs of characters that are not white space.
RECURSIVE SplitFrom(_, _, _, _)
SplitFrom(s, i, cur, acc) ==
    IF i > Len(s) THEN (IF cur = <<>> THEN acc ELSE Append(acc, cur))
    ELSE IF s[i] \in WhiteSpace
         THEN SplitFrom(s, i + 1, <<>>, IF cur = <<>> THEN acc ELSE Append(acc, cur))
    ELSE SplitFrom(s, i + 1, Append(cur, s[i]), acc)

split(s) == SplitFrom(s, 1, <<>>, <<>>)

\* The set of elements of a sequence.
Range(s) == {s[i] : i \in 1..Len(s)}

\* ----------------------------------------------------------- session names

\* \d of a str pattern: any Unicode decimal digit.
IsDigit(c) == c \in AsciiDigits \cup OtherDigits

\* SESSION_PATTERN.fullmatch(name) for ^\d{8}_\d{6}$.
SESSION_PATTERN_fullmatch(name) ==
    /\ Len(name) = 15
    /\ \A i \in 1..8 : IsDigit(name[i])
    /\ name[9] = "_"
    /\ \A i \in 10..15 : IsDigit(name[i])

DigitChar(d) ==
    CASE d = 0 -> "0" [] d = 1 -> "1" [] d = 2 -> "2" [] d = 3 -> "3"
      [] d = 4 -> "4" [] d = 5 -> "5" [] d = 6 -> "6" [] d = 7 -> "7"
      [] d = 8 -> "8" [] OTHER -> "9"

\* The i-th session name of the model: 20240101_10000i.
SessionName(i) ==
    <<"2", "0", "2", "4", "0", "1", "0", "1", "_", "1", "0", "0", "0", "0", DigitChar(i)>>

SessionNames == {SessionName(i) : i \in 1..NumSessions}

\* A directory entry of the headset that is no session: 20240101_1200000.
StrayName ==
    <<"2", "0", "2", "4", "0", "1", "0", "1", "_", "1", "2", "0", "0", "0", "0", "0">>

DeviceNames == SessionNames \cup {StrayName}

\* A name whose last digit is ARABIC-INDIC DIGIT THREE (U+0663).
ForeignName ==
    <<"2", "0", "2", "4", "0", "1", "0", "1", "_", "1", "0", "0", "0", "0", "U+0663">>

\* Every name an entry of device_dir or local_dir has in the model.
EntryNames == DeviceNames \cup {ForeignName}

\* ------------------------------------------------------------------ state

VARIABLES
    args,              \* parse_args(): dry_run, no_delete, delete_old_only
    pc,                \* position of main()
    adbInPath,         \* environment: shutil.which("adb") finds the tool
    deviceFs,          \* environment: names of the entries of device_dir
    localFs,           \* environment: entries of local_dir, name -> kind
    connected,         \* ensure_device_connected: serials in state device
    unauthorized,      \* ensure_device_connected: serials in state unauthorized
    serial,            \* main: the serial ensure_device_connected returned
    device_sessions,   \* main
    local_before,      \* main
    new_sessions,      \* main
    old_sessions,      \* main
    pulled_ok,         \* main
    pull_failed,       \* main
    delete_candidates, \* main
    deleted_ok,        \* main
    delete_failed,     \* main
    pull_i,            \* main: position of the loop over new_sessions
    delete_i,          \* main: position of the loop over delete_candidates
    exitStatus,        \* the value main() returned, -1 while it runs
    errorMsg,          \* the [ERROR] diagnostic main() printed, "" if none
    calls,             \* history: calls of pull_session / delete_session
    adbCmds,           \* history: adb commands that were run
    reported,          \* history: how many serials `adb devices` listed per state
    deviceFs0,         \* history: deviceFs when the run started
    localFs0,          \* history: localFs when the run started
    result_returncode, \* pull_session: result.returncode of adb pull, -1 if none
    run,               \* history: how many times the script was started
    prev,              \* history: the run before this one
    pastPulledOk,      \* history: sessions an earlier run pulled for real
    probe,             \* a name handed to SESSION_PATTERN.fullmatch
    accepted           \* whether fullmatch returned a match for probe

vars ==
    <<args, pc, adbInPath, deviceFs, localFs, connected, unauthorized, serial,
      device_sessions, local_before, new_sessions, old_sessions, pulled_ok,
      pull_failed, delete_candidates, deleted_ok, delete_failed, pull_i,
      delete_i, exitStatus, errorMsg, calls, adbCmds, reported, deviceFs0,
      localFs0, result_returncode, run, prev, pastPulledOk, probe, accepted>>

envVars ==
    <<args, adbInPath, deviceFs0, localFs0, run, prev, pastPulledOk, probe, accepted>>

planVars == <<device_sessions, local_before, new_sessions, old_sessions>>

pullVars == <<pulled_ok, pull_failed, pull_i, result_returncode>>

deleteVars == <<delete_candidates, deleted_ok, delete_failed, delete_i>>

deviceVars == <<connected, unauthorized, serial, reported>>

DeviceStates == {"device", "unauthorized", "offline"}

NothingReported == [s \in DeviceStates |-> 0]

Args == [dry_run : BOOLEAN, no_delete : BOOLEAN, delete_old_only : BOOLEAN]

\* The [ERROR] diagnostics of main().
MsgNoAdb == "adb was not found in PATH."

MsgUnauthorized ==
    "Quest is connected but unauthorized. Put on the headset and allow USB debugging."

MsgNoDevice == "No ADB device detected."

MsgCommandFailed == "Command failed"

\* The local directory holds, for each session name, nothing or a directory,
\* for the first session name possibly a plain file instead, and a
\* directory whose name is no session name.
LocalDirs ==
    {fs \in [EntryNames -> {"absent", "dir", "file"}] :
        /\ fs[StrayName] = "dir"
        /\ fs[ForeignName] = "absent"
        /\ \A n \in SessionNames : fs[n] = "file" => n = SessionName(1)}

\* No run before this one.
NoRun == [exit |-> -1, dry_run |-> FALSE, pull_failed |-> {}, touched |-> FALSE]

\* The variables of main() when the script starts.
RunStart ==
    /\ connected = <<>>
    /\ unauthorized = <<>>
    /\ serial = <<>>
    /\ device_sessions = <<>>
    /\ local_before = {}
    /\ new_sessions = <<>>
    /\ old_sessions = <<>>
    /\ pulled_ok = <<>>
    /\ pull_failed = <<>>
    /\ delete_candidates = <<>>
    /\ deleted_ok = <<>>
    /\ delete_failed = <<>>
    /\ pull_i = 1
    /\ delete_i = 1
    /\ result_returncode = -1
    /\ exitStatus = -1
    /\ errorMsg = ""
    /\ calls = <<>>
    /\ adbCmds = <<>>
    /\ reported = NothingReported

\* The first start of the script: no history.
FirstRun ==
    /\ deviceFs0 = deviceFs
    /\ localFs0 = localFs
    /\ run = 1
    /\ prev = NoRun
    /\ pastPulledOk = {}

\* No name is being matched.
NoProbe ==
    /\ probe = <<>>
    /\ accepted = FALSE

Init ==
    /\ args \in Args
    /\ pc = "start"
    /\ adbInPath \in BOOLEAN
    /\ deviceFs \in SUBSET DeviceNames
    /\ localFs \in LocalDirs
    /\ RunStart
    /\ FirstRun
    /\ NoProbe

\* Mutant: the handler prints the diagnostic and main() goes on.
FatalNoReturn(msg) ==
    /\ errorMsg' = msg
    /\ exitStatus' = exitStatus
    /\ pc' = "list"

\* except RuntimeError as exc: print [ERROR], return 1.
Fatal(msg) ==
    /\ errorMsg' = msg
    /\ exitStatus' = 1
    /\ pc' = "done"

\* --------------------------------------------------------------- preflight

\* main() up to ensure_adb_available(): parse_args, mkdir, shutil.which.
EnsureAdbAvailable ==
    /\ pc = "start"
    /\ IF adbInPath
       THEN /\ pc' = "ensure_device"
            /\ UNCHANGED <<exitStatus, errorMsg>>
       ELSE Fatal(MsgNoAdb)
    /\ UNCHANGED <<envVars, deviceFs, localFs, deviceVars, planVars, pullVars,
                   deleteVars, calls, adbCmds>>

\* The lines `adb devices` can print for one device.
DevLines ==
    { <<"SERIAL_A", "TAB", "device">>,
      <<"SERIAL_B", "TAB", "device">>,
      <<"SERIAL_C", "TAB", "unauthorized">>,
      <<"SERIAL_D", "TAB", "offline">>,
      <<"SERIAL_E">> }

\* At most MaxDevLines lines, no line twice.
DevBodies ==
    {b \in UNION {[1..n -> DevLines] : n \in 0..MaxDevLines} :
        \A i, j \in 1..Len(b) : b[i] = b[j] => i = j}

RECURSIVE WithLF(_)
WithLF(lines) ==
    IF lines = <<>> THEN <<>>
    ELSE Head(lines) \o <<"LF">> \o WithLF(Tail(lines))

\* stdout of `adb devices`: the header, one line per device, a blank line.
DevicesOutput(body) ==
    <<"List", "SP", "of", "SP", "devices", "SP", "attached", "LF">>
        \o WithLF(body) \o <<"LF">>

\* The loop of ensure_device_connected over the lines after the header:
\* the serials whose state is `state`, in order.
RECURSIVE SerialsInState(_, _)
SerialsInState(lines, state) ==
    IF lines = <<>> THEN <<>>
    ELSE LET line == strip(Head(lines))
             parts == split(line)
             rest == SerialsInState(Tail(lines), state)
         IN  IF line = <<>> THEN rest
             ELSE IF Len(parts) < 2 THEN rest
             ELSE IF parts[2] = state THEN <<parts[1]>> \o rest
             ELSE rest

DeviceLinesOf(output) ==
    LET lines == splitlines(output) IN
    IF lines = <<>> THEN <<>> ELSE Tail(lines)

Connected(output) == SerialsInState(DeviceLinesOf(output), <<"device">>)

Unauthorized(output) == SerialsInState(DeviceLinesOf(output), <<"unauthorized">>)

\* How many lines of `body` name a serial in each state.
Reported(body) ==
    [s \in DeviceStates |->
        Cardinality({i \in 1..Len(body) : Len(body[i]) = 3 /\ body[i][3] = s})]

\* Mutant: the test for unauthorized serials is missing.
DeviceErrorNoUnauthorized(conn, unauth) ==
    IF conn = <<>> THEN MsgNoDevice ELSE ""

\* The RuntimeError ensure_device_connected raises (lines 58-63), "" if none.
DeviceError(conn, unauth) ==
    IF unauth # <<>> /\ conn = <<>> THEN MsgUnauthorized
    ELSE IF conn = <<>> THEN MsgNoDevice
    ELSE ""

\* ensure_device_connected(), and main()'s handling of what it raises.
EnsureDeviceConnected ==
    /\ pc = "ensure_device"
    /\ adbCmds' = Append(adbCmds, <<"devices", <<>>>>)
    /\ \E ok \in BOOLEAN :
          IF ~ok
          THEN /\ Fatal(MsgCommandFailed)
               /\ UNCHANGED deviceVars
          ELSE \E body \in DevBodies :
               LET output == DevicesOutput(body) IN
               /\ reported' = Reported(body)
               /\ connected' = Connected(output)
               /\ unauthorized' = Unauthorized(output)
               /\ IF DeviceError(connected', unauthorized') # ""
                  THEN /\ Fatal(DeviceError(connected', unauthorized'))
                       /\ UNCHANGED serial
                  ELSE /\ serial' = connected'[1]
                       /\ pc' = "list"
                       /\ UNCHANGED <<exitStatus, errorMsg>>
    /\ UNCHANGED <<envVars, deviceFs, localFs, planVars, pullVars, deleteVars,
                   calls>>

\* ------------------------------------------------------------------ listing

\* sorted(): insertion of one string into an ascending list, after its equals.
RECURSIVE InsertSorted(_, _)
InsertSorted(x, s) ==
    IF s = <<>> THEN <<x>>
    ELSE IF StrLess(x, Head(s)) THEN <<x>> \o s
    ELSE <<Head(s)>> \o InsertSorted(x, Tail(s))

RECURSIVE sorted(_)
sorted(s) ==
    IF s = <<>> THEN <<>> ELSE InsertSorted(s[Len(s)], sorted(SubSeq(s, 1, Len(s) - 1)))

\* The loop of list_device_sessions over the lines of the listing.
RECURSIVE MatchingNames(_)
MatchingNames(lines) ==
    IF lines = <<>> THEN <<>>
    ELSE LET name == replaceCR(strip(Head(lines))) IN
         IF SESSION_PATTERN_fullmatch(name)
         THEN <<name>> \o MatchingNames(Tail(lines))
         ELSE MatchingNames(Tail(lines))

\* Mutant: the names are returned in the order of the listing.
list_device_sessions_unsorted(output) == MatchingNames(splitlines(output))

\* list_device_sessions(device_dir), given the stdout of `adb shell ls -1`.
list_device_sessions(output) == sorted(MatchingNames(splitlines(output)))

\* The line ends `adb shell` produces: LF, or CR LF on older versions.
LineEnds == {<<"LF">>, <<"CR", "LF">>}

RECURSIVE Reverse(_)
Reverse(s) == IF s = <<>> THEN <<>> ELSE Append(Reverse(Tail(s)), Head(s))

\* The entries of a directory in the two orders a listing comes in:
\* ascending by name and descending.
RECURSIVE SetToSortedSeq(_)
SetToSortedSeq(S) ==
    IF S = {} THEN <<>>
    ELSE LET x == CHOOSE y \in S : \A z \in S \ {y} : StrLess(y, z)
         IN  <<x>> \o SetToSortedSeq(S \ {x})

ListingOrders(S) == {SetToSortedSeq(S), Reverse(SetToSortedSeq(S))}

RECURSIVE WithLineEnd(_, _)
WithLineEnd(names, eol) ==
    IF names = <<>> THEN <<>>
    ELSE Head(names) \o eol \o WithLineEnd(Tail(names), eol)

\* list_device_sessions() as main() calls it, the RuntimeError handler and
\* the return 0 when no session is on the device (lines 177-185).
ListDeviceSessions ==
    /\ pc = "list"
    /\ adbCmds' = Append(adbCmds, <<"ls", <<>>>>)
    /\ connected' = <<>>
    /\ unauthorized' = <<>>
    /\ reported' = NothingReported
    /\ \E ok \in BOOLEAN :
          IF ~ok
          THEN /\ Fatal(MsgCommandFailed)
               /\ UNCHANGED device_sessions
          ELSE \E names \in ListingOrders(deviceFs), eol \in LineEnds :
               /\ device_sessions' = list_device_sessions(WithLineEnd(names, eol))
               /\ errorMsg' = errorMsg
               /\ IF device_sessions' = <<>>
                  THEN exitStatus' = 0 /\ pc' = "done"
                  ELSE exitStatus' = exitStatus /\ pc' = "plan"
    /\ UNCHANGED <<envVars, deviceFs, localFs, serial, local_before,
                   new_sessions, old_sessions, pullVars, deleteVars, calls>>

\* ------------------------------------------------------------------ planning

\* Mutant: the local directory is never scanned.
list_local_sessions_none(fs) == {}

\* list_local_sessions(local_dir): local_dir exists, main() created it.
list_local_sessions(fs) ==
    {name \in DOMAIN fs : fs[name] = "dir" /\ SESSION_PATTERN_fullmatch(name)}

\* [s for s in device_sessions if s not in local_before]
IsNew(s, before) == s \notin before

RECURSIVE Filter(_, _, _)
Filter(s, before, wantNew) ==
    IF s = <<>> THEN <<>>
    ELSE IF IsNew(Head(s), before) = wantNew
         THEN <<Head(s)>> \o Filter(Tail(s), before, wantNew)
         ELSE Filter(Tail(s), before, wantNew)

\* Mutant: every remote session is pulled, local or not.
NewSessionsUnfiltered(sessions, before) == sessions

NewSessions(sessions, before) == Filter(sessions, before, TRUE)

\* Mutant: every remote session counts as already local.
OldSessionsUnfiltered(sessions, before) == sessions

OldSessions(sessions, before) == Filter(sessions, before, FALSE)

\* main() lines 187-196: the local snapshot and the partition.
Plan ==
    /\ pc = "plan"
    /\ local_before' = list_local_sessions(localFs)
    /\ new_sessions' = NewSessions(device_sessions, local_before')
    /\ old_sessions' = OldSessions(device_sessions, local_before')
    /\ pulled_ok' = <<>>
    /\ pull_failed' = <<>>
    /\ pull_i' = 1
    /\ result_returncode' = result_returncode
    /\ pc' = "pull"
    /\ UNCHANGED <<envVars, deviceFs, localFs, deviceVars, device_sessions,
                   deleteVars, exitStatus, errorMsg, calls, adbCmds>>

\* -------------------------------------------------------------------- pulls

\* Mutant: the dry_run parameter is not looked at.
DryRunIgnored(a) == FALSE

\* `if dry_run:` of pull_session (line 90) and delete_session (line 111).
DryRun(a) == a.dry_run

\* Mutant: the exit status of adb pull is not looked at.
PullSucceededIfDir(returncode, fs, session) == fs[session] = "dir"

\* Mutant: the loop is left at the first failed pull.
LoopDoneAfterFailure(i, items) == i > Len(items) \/ pull_failed # <<>>

\* Mutant: the loop stops one element early.
LoopDoneEarly(i, items) == i >= Len(items)

\* `for session in items`: the loop has passed the last element.
LoopDone(i, items) == i > Len(items)

\* The exit statuses of an adb command the model tells apart.
ReturnCodes == {0, 1}

\* What `adb pull remote local_dir` can leave at local_dir/session: what was
\* there, or a directory (complete or partial); it never replaces a file.
PullEffects(fs, session) ==
    {fs} \cup (IF fs[session] = "file" THEN {} ELSE {[fs EXCEPT ![session] = "dir"]})

\* Mutant: the exit status alone decides, the is_dir() check is missing.
PullSucceededUnverified(returncode, fs, session) == returncode = 0

\* pull_session() after the adb command returned: returncode, then is_dir().
PullSucceeded(returncode, fs, session) ==
    IF returncode # 0 THEN FALSE
    ELSE IF fs[session] # "dir" THEN FALSE
    ELSE TRUE

\* One iteration of the loop over new_sessions (lines 198-202) and the
\* pull_session() it calls.
PullSession ==
    /\ pc = "pull"
    /\ ~LoopDone(pull_i, new_sessions)
    /\ LET session == new_sessions[pull_i] IN
       /\ calls' = Append(calls, <<"pull", session>>)
       /\ IF DryRun(args)
          THEN /\ pulled_ok' = Append(pulled_ok, session)
               /\ UNCHANGED <<pull_failed, localFs, adbCmds, result_returncode>>
          ELSE /\ adbCmds' = Append(adbCmds, <<"pull", session>>)
               /\ \E rc \in ReturnCodes, fs \in PullEffects(localFs, session) :
                     /\ localFs' = fs
                     /\ result_returncode' = rc
                     /\ IF PullSucceeded(rc, fs, session)
                        THEN /\ pulled_ok' = Append(pulled_ok, session)
                             /\ UNCHANGED pull_failed
                        ELSE /\ pull_failed' = Append(pull_failed, session)
                             /\ UNCHANGED pulled_ok
    /\ pull_i' = pull_i + 1
    /\ UNCHANGED <<envVars, deviceFs, deviceVars, planVars, deleteVars, pc,
                   exitStatus, errorMsg>>

\* ------------------------------------------------------------------ deletes

\* list(dict.fromkeys(s)): the first occurrence of each element, in order.
RECURSIVE DedupFrom(_, _)
DedupFrom(s, seen) ==
    IF s = <<>> THEN <<>>
    ELSE IF Head(s) \in seen THEN DedupFrom(Tail(s), seen)
    ELSE <<Head(s)>> \o DedupFrom(Tail(s), seen \cup {Head(s)})

dict_fromkeys(s) == DedupFrom(s, {})

\* Mutant: the default policy deletes every new session, pulled or not.
DeleteCandidatesOfNew(a, old, pulled) ==
    IF a.no_delete THEN <<>>
    ELSE IF a.delete_old_only THEN old
    ELSE dict_fromkeys(old \o new_sessions)

\* Mutant: --delete-old-only is tested before --no-delete.
DeleteCandidatesOldOnlyFirst(a, old, pulled) ==
    IF a.delete_old_only THEN old
    ELSE IF a.no_delete THEN <<>>
    ELSE dict_fromkeys(old \o pulled)

\* Mutant: --delete-old-only is not looked at.
DeleteCandidatesNoOldOnly(a, old, pulled) ==
    IF a.no_delete THEN <<>>
    ELSE dict_fromkeys(old \o pulled)

\* main() lines 204-211: the deletion candidates under the policy.
DeleteCandidates(a, old, pulled) ==
    IF a.no_delete THEN <<>>
    ELSE IF a.delete_old_only THEN old
    ELSE dict_fromkeys(old \o pulled)

\* End of the pull loop, lines 204-214.
SelectDeleteCandidates ==
    /\ pc = "pull"
    /\ LoopDone(pull_i, new_sessions)
    /\ delete_candidates' = DeleteCandidates(args, old_sessions, pulled_ok)
    /\ deleted_ok' = <<>>
    /\ delete_failed' = <<>>
    /\ delete_i' = 1
    /\ pc' = "delete"
    /\ result_returncode' = -1
    /\ UNCHANGED <<envVars, deviceFs, localFs, deviceVars, planVars, pulled_ok,
                   pull_failed, pull_i, exitStatus, errorMsg, calls, adbCmds>>

\* What `adb shell rm -rf remote` can do to the entries of device_dir: with
\* status 0 the entry is gone; with another status it is still there (whole
\* or in part), or gone when only the status was lost.
DeleteEffects(entries, session, returncode) ==
    IF returncode = 0 THEN {entries \ {session}}
    ELSE {entries, entries \ {session}}

\* delete_session() after the adb command returned.
DeleteSucceeded(returncode) == returncode = 0

\* One iteration of the loop over delete_candidates (lines 215-219) and the
\* delete_session() it calls.
DeleteSession ==
    /\ pc = "delete"
    /\ ~LoopDone(delete_i, delete_candidates)
    /\ LET session == delete_candidates[delete_i] IN
       /\ calls' = Append(calls, <<"delete", session>>)
       /\ IF DryRun(args)
          THEN /\ deleted_ok' = Append(deleted_ok, session)
               /\ UNCHANGED <<delete_failed, deviceFs, adbCmds>>
          ELSE /\ adbCmds' = Append(adbCmds, <<"rm", session>>)
               /\ \E returncode \in ReturnCodes :
                  \E entries \in DeleteEffects(deviceFs, session, returncode) :
                     /\ deviceFs' = entries
                     /\ IF DeleteSucceeded(returncode)
                        THEN /\ deleted_ok' = Append(deleted_ok, session)
                             /\ UNCHANGED delete_failed
                        ELSE /\ delete_failed' = Append(delete_failed, session)
                             /\ UNCHANGED deleted_ok
    /\ delete_i' = delete_i + 1
    /\ UNCHANGED <<envVars, localFs, deviceVars, planVars, pullVars,
                   delete_candidates, pc, exitStatus, errorMsg>>

\* ------------------------------------------------------------------ summary

\* Mutant: only the failed pulls decide the exit status.
ExitCodeOfPulls(failedPulls, failedDeletes) ==
    IF failedPulls # <<>> THEN 1 ELSE 0

\* main() lines 232-234.
ExitCode(failedPulls, failedDeletes) ==
    IF failedPulls # <<>> \/ failedDeletes # <<>> THEN 1 ELSE 0

\* End of the delete loop: the summary and the return (lines 221-234).
Summary ==
    /\ pc = "delete"
    /\ LoopDone(delete_i, delete_candidates)
    /\ exitStatus' = ExitCode(pull_failed, delete_failed)
    /\ pc' = "done"
    /\ UNCHANGED <<envVars, deviceFs, localFs, deviceVars, planVars, pullVars,
                   deleteVars, errorMsg, calls, adbCmds>>

Next ==
    \/ EnsureAdbAvailable
    \/ EnsureDeviceConnected
    \/ ListDeviceSessions
    \/ Plan
    \/ PullSession
    \/ SelectDeleteCandidates
    \/ DeleteSession
    \/ Summary

Spec == Init /\ [][Next]_vars

\* ----------------------------------------------------------- the name test

\* A name the pattern matches.
ValidProbe == SessionName(1)

\* 2024-01-01_120000
DashedName ==
    <<"2", "0", "2", "4", "-", "0", "1", "-", "0", "1", "_", "1", "2", "0", "0", "0", "0">>

ProbeChars == {"0", "9", "_", "-", "SP", "LF", "U+0663"}

\* The names handed to the test: ValidProbe with one character replaced,
\* removed, or added in front or behind, and some names of other lengths.
NameProbes ==
    {[ValidProbe EXCEPT ![i] = c] : i \in 1..Len(ValidProbe), c \in ProbeChars}
    \cup {SubSeq(ValidProbe, 1, i - 1) \o SubSeq(ValidProbe, i + 1, Len(ValidProbe)) :
             i \in 1..Len(ValidProbe)}
    \cup {<<c>> \o ValidProbe : c \in ProbeChars}
    \cup {ValidProbe \o <<c>> : c \in ProbeChars}
    \cup {<<>>, StrayName, ForeignName, DashedName}

InitNaming ==
    /\ args = [dry_run |-> FALSE, no_delete |-> FALSE, delete_old_only |-> FALSE]
    /\ pc = "naming"
    /\ adbInPath = TRUE
    /\ deviceFs = {}
    /\ localFs = [n \in EntryNames |-> "absent"]
    /\ RunStart
    /\ FirstRun
    /\ probe \in NameProbes
    /\ accepted = FALSE

\* SESSION_PATTERN.fullmatch(name) as list_device_sessions (line 73) and
\* list_local_sessions (line 83) call it on one name.
CheckName ==
    /\ pc = "naming"
    /\ accepted' = SESSION_PATTERN_fullmatch(probe)
    /\ pc' = "named"
    /\ UNCHANGED <<args, adbInPath, deviceFs0, localFs0, run, prev, pastPulledOk,
                   probe, deviceFs, localFs, deviceVars, planVars, pullVars,
                   deleteVars, exitStatus, errorMsg, calls, adbCmds>>

SpecNaming == InitNaming /\ [][CheckName]_vars

\* ------------------------------------------------------ one run after another

\* The sessions of the runs that follow each other.
RerunNames == {SessionName(1), SessionName(2)}

RerunLocalDirs ==
    {fs \in [EntryNames -> {"absent", "dir"}] :
        \A n \in EntryNames :
            /\ n = StrayName => fs[n] = "dir"
            /\ n \notin RerunNames \cup {StrayName} => fs[n] = "absent"}

InitRerun ==
    /\ args \in Args
    /\ pc = "start"
    /\ adbInPath \in BOOLEAN
    /\ deviceFs \in SUBSET RerunNames
    /\ localFs \in RerunLocalDirs
    /\ RunStart
    /\ FirstRun
    /\ NoProbe

\* What the user can do to local_dir between two runs: nothing, or remove
\* one session directory.
BetweenRuns(fs) ==
    {fs} \cup {[fs EXCEPT ![n] = "absent"] : n \in RerunNames}

\* main() has returned and the script is started again, with any flags, on
\* the device and the local directory the run before left behind.
StartNextRun ==
    /\ pc = "done"
    /\ run < MaxRuns
    /\ run' = run + 1
    /\ args' \in Args
    /\ localFs' \in BetweenRuns(localFs)
    /\ prev' = [exit |-> exitStatus, dry_run |-> args.dry_run,
                pull_failed |-> Range(pull_failed), touched |-> localFs' # localFs]
    /\ pastPulledOk' =
          pastPulledOk \cup (IF DryRun(args) THEN {} ELSE Range(pulled_ok))
    /\ deviceFs0' = deviceFs
    /\ localFs0' = localFs'
    /\ pc' = "start"
    /\ connected' = <<>>
    /\ unauthorized' = <<>>
    /\ serial' = <<>>
    /\ device_sessions' = <<>>
    /\ local_before' = {}
    /\ new_sessions' = <<>>
    /\ old_sessions' = <<>>
    /\ pulled_ok' = <<>>
    /\ pull_failed' = <<>>
    /\ delete_candidates' = <<>>
    /\ deleted_ok' = <<>>
    /\ delete_failed' = <<>>
    /\ pull_i' = 1
    /\ delete_i' = 1
    /\ result_returncode' = -1
    /\ exitStatus' = -1
    /\ errorMsg' = ""
    /\ calls' = <<>>
    /\ adbCmds' = <<>>
    /\ reported' = NothingReported
    /\ UNCHANGED <<adbInPath, deviceFs, probe, accepted>>

NextRerun ==
    \/ Next
    \/ StartNextRun

SpecRerun == InitRerun /\ [][NextRerun]_vars

\* ------------------------------------------- entries named with other digits

\* The headset holds any of: one session, an entry whose name has a decimal
\* digit outside ASCII, an entry whose name is too long.
ForeignDeviceDirs == SUBSET {SessionName(1), ForeignName, StrayName}

\* The local directory holds or lacks a directory for the first two.
ForeignLocalDirs ==
    {fs \in [EntryNames -> {"absent", "dir"}] :
        \A n \in EntryNames :
            /\ n = StrayName => fs[n] = "dir"
            /\ n \notin {SessionName(1), ForeignName, StrayName} => fs[n] = "absent"}

InitForeign ==
    /\ args \in Args
    /\ pc = "start"
    /\ adbInPath \in BOOLEAN
    /\ deviceFs \in ForeignDeviceDirs
    /\ localFs \in ForeignLocalDirs
    /\ RunStart
    /\ FirstRun
    /\ NoProbe

SpecForeign == InitForeign /\ [][Next]_vars

\* ================================================================== claims

\* The sessions passed to pull_session / delete_session so far, in order.
RECURSIVE CallsOf(_, _)
CallsOf(log, op) ==
    IF log = <<>> THEN <<>>
    ELSE IF Head(log)[1] = op THEN <<Head(log)[2]>> \o CallsOf(Tail(log), op)
    ELSE CallsOf(Tail(log), op)

PullCalls == CallsOf(calls, "pull")

DeleteCalls == CallsOf(calls, "delete")

\* The plan of the run has been computed (the partition, lines 187-189).
Planned == pc \in {"pull", "delete"} \/ (pc = "done" /\ new_sessions \o old_sessions # <<>>)

\* The deletion candidates of the run have been computed (lines 204-211).
CandidatesChosen == pc = "delete" \/ (pc = "done" /\ Planned)

DefaultPolicy == ~args.no_delete /\ ~args.delete_old_only

\* ------------------------------------------------------------------------
\* A step removes an entry from the headset only if the local directory
\* holds a subdirectory of that name.
RemovedOnlyWithLocalCopy ==
    \A s \in deviceFs \ deviceFs' : localFs[s] = "dir" /\ localFs'[s] = "dir"

\* Every session of the remote snapshot is on the headset or a local
\* subdirectory.
SnapshotSafe ==
    \A s \in Range(device_sessions) : s \in deviceFs \/ localFs[s] = "dir"

\* C1  No data loss.  Whatever the flags and the outcomes of the pulls and
\* deletes, an entry leaves the headset only in a step in which the local
\* directory holds a subdirectory of that name, and every session of the
\* remote snapshot is, in every state, still on the headset or a local
\* subdirectory.
C1_NoDataLoss == [](SnapshotSafe) /\ [][RemovedOnlyWithLocalCopy]_vars

\* A session pulled in this run has been removed from the headset.
C1_Witness ==
    /\ pc = "done"
    /\ \E s \in Range(pulled_ok) : s \in deviceFs0 /\ s \notin deviceFs
    /\ pull_failed # <<>>

C3_Partition ==
    Planned =>
        LET remote == Range(device_sessions) IN
        /\ Range(new_sessions) \cup Range(old_sessions) = remote
        /\ Range(new_sessions) \cap Range(old_sessions) = {}
        /\ Range(new_sessions) = remote \ local_before
        /\ Range(old_sessions) = remote \cap local_before
        /\ local_before = {n \in SessionNames : localFs0[n] = "dir"}

C3_Witness ==
    /\ pc = "pull"
    /\ new_sessions # <<>>
    /\ old_sessions # <<>>
    /\ local_before \ Range(device_sessions) # {}

\* ------------------------------------------------------------------------
NoRmCommand == \A i \in 1..Len(adbCmds) : adbCmds[i][1] # "rm"

\* C4  --no-delete.  With --no-delete set, with or without
\* --delete-old-only, delete_candidates is empty, delete_session is never
\* called, no rm command is run and the headset keeps every entry.
C4_NoDelete ==
    args.no_delete =>
        /\ delete_candidates = <<>>
        /\ DeleteCalls = <<>>
        /\ NoRmCommand
        /\ deviceFs = deviceFs0

\* A finished run with both flags, sessions already local and sessions pulled.
C4_Witness ==
    /\ args.no_delete
    /\ args.delete_old_only
    /\ pc = "done"
    /\ errorMsg = ""
    /\ old_sessions # <<>>
    /\ pulled_ok # <<>>

\* ------------------------------------------------------------------------
\* C5  --delete-old-only.  With --delete-old-only and without --no-delete,
\* delete_candidates is old_sessions exactly, whatever the pulls did, and
\* no session passed to pull_session in this run is passed to
\* delete_session or leaves the headset in this run.
C5_DeleteOldOnly ==
    (args.delete_old_only /\ ~args.no_delete) =>
        /\ CandidatesChosen => delete_candidates = old_sessions
        /\ \A s \in Range(PullCalls) :
              /\ s \notin Range(DeleteCalls)
              /\ s \in deviceFs0 => s \in deviceFs

\* A finished run that pulled a session with success and deleted an old one.
C5_Witness ==
    /\ args.delete_old_only
    /\ ~args.no_delete
    /\ ~args.dry_run
    /\ pc = "done"
    /\ pulled_ok # <<>>
    /\ deleted_ok # <<>>

\* ------------------------------------------------------------------------
\* C6  Phase ordering.  No call of delete_session comes before the pull of
\* the last session of new_sessions has returned, and no call of
\* pull_session comes after a call of delete_session.
C6_PullsBeforeDeletes ==
    /\ DeleteCalls # <<>> => PullCalls = new_sessions
    /\ \A i, j \in 1..Len(calls) :
          (calls[i][1] = "delete" /\ calls[j][1] = "pull") => j < i
    /\ pc = "delete" => PullCalls = new_sessions

\* A run that has pulled two sessions and then called delete_session.
C6_Witness ==
    /\ Len(PullCalls) >= 2
    /\ DeleteCalls # <<>>

\* ------------------------------------------------------------------------
StrictlyAscending(s) == \A i \in 1..(Len(s) - 1) : StrLess(s[i], s[i + 1])

C8_ExitStatus ==
    /\ pc = "done" =>
          /\ exitStatus \in {0, 1}
          /\ exitStatus = 1 <=>
                (errorMsg # "" \/ pull_failed # <<>> \/ delete_failed # <<>>)
          /\ ~adbInPath => errorMsg # ""
    /\ pc # "done" => exitStatus = -1

\* A finished run whose only failure is a failed delete.
C8_Witness ==
    /\ pc = "done"
    /\ exitStatus = 1
    /\ errorMsg = ""
    /\ pull_failed = <<>>
    /\ pulled_ok # <<>>
    /\ delete_failed # <<>>

\* ------------------------------------------------------------------------
\* C9  Fatal preconditions.  Without adb in PATH, without a serial in
\* state device, or when an adb command of the preflight or the listing
\* fails, the run ends at once with status 1: neither pull_session nor
\* delete_session is called, no adb command follows the failing step, and
\* the headset and the local directory keep their contents.
C9_FatalAborts ==
    /\ (pc # "start" /\ ~adbInPath) => errorMsg = MsgNoAdb
    /\ (Len(adbCmds) = 1 /\ reported["device"] = 0) => errorMsg # ""
    /\ errorMsg # "" =>
          /\ pc = "done"
          /\ exitStatus = 1
          /\ calls = <<>>
          /\ errorMsg = MsgNoAdb => adbCmds = <<>>
          /\ errorMsg \in {MsgUnauthorized, MsgNoDevice} =>
                adbCmds = << <<"devices", <<>>>> >>
          /\ errorMsg = MsgCommandFailed =>
                \/ adbCmds = << <<"devices", <<>>>> >>
                \/ adbCmds = << <<"devices", <<>>>>, <<"ls", <<>>>> >>
          /\ device_sessions = <<>>
          /\ new_sessions = <<>>
          /\ old_sessions = <<>>
          /\ delete_candidates = <<>>
          /\ deviceFs = deviceFs0
          /\ localFs = localFs0

\* The listing failed on a headset that holds a session with a local copy
\* and a session without.
C9_Witness ==
    /\ errorMsg = MsgCommandFailed
    /\ Len(adbCmds) = 2
    /\ \E s \in deviceFs : s \in SessionNames /\ localFs[s] = "dir"
    /\ \E s \in deviceFs : s \in SessionNames /\ localFs[s] = "absent"

\* ------------------------------------------------------------------------
\* C10  Device states.  Once `adb devices` has succeeded: with a serial in
\* state unauthorized and none in state device the run ends with the
\* unauthorized diagnostic; with neither, it ends with the no-device
\* diagnostic, which is another message; with a serial in state device it
\* goes on to the listing; serials in other states change none of this.
\* In both failures no listing, pull or delete is attempted.
C10_DeviceStates ==
    /\ MsgUnauthorized # MsgNoDevice
    /\ (Len(adbCmds) = 1 /\ errorMsg # MsgCommandFailed) =>
          /\ (reported["device"] = 0 /\ reported["unauthorized"] >= 1) =>
                (pc = "done" /\ exitStatus = 1 /\ errorMsg = MsgUnauthorized)
          /\ (reported["device"] = 0 /\ reported["unauthorized"] = 0) =>
                (pc = "done" /\ exitStatus = 1 /\ errorMsg = MsgNoDevice)
          /\ reported["device"] >= 1 => (pc = "list" /\ errorMsg = "")
    /\ errorMsg \in {MsgUnauthorized, MsgNoDevice} =>
          /\ adbCmds = << <<"devices", <<>>>> >>
          /\ calls = <<>>

\* The unauthorized diagnostic, with a serial in state offline listed too.
C10_Witness ==
    /\ errorMsg = MsgUnauthorized
    /\ reported["unauthorized"] >= 1
    /\ reported["offline"] >= 1

\* ------------------------------------------------------------------------
\* C11  Exactly one device, as claimed: the step that lists the headset is
\* taken only when `adb devices` listed exactly one serial in state device;
\* with none, or with two or more, the run does not get to the listing.
C11_ExactlyOneDevice_Claimed ==
    [][(pc = "list" /\ pc' # "list") => reported["device"] = 1]_vars

\* ------------------------------------------------------------------------
NoPullOrRmCommand ==
    \A i \in 1..Len(adbCmds) : adbCmds[i][1] \notin {"pull", "rm"}

\* C12  Dry run.  With --dry-run no pull and no rm command is run, the
\* headset and the local directory keep the contents they had when the
\* run started, pull_failed and delete_failed stay empty, a run that gets
\* past its preconditions ends with status 0, and the plan is the one of a
\* run in which every pull succeeded: pulled_ok is new_sessions, every
\* candidate ends in deleted_ok, and under the default policy the
\* candidates are old_sessions followed by new_sessions.
C12_DryRun ==
    args.dry_run =>
        /\ NoPullOrRmCommand
        /\ deviceFs = deviceFs0
        /\ localFs = localFs0
        /\ pull_failed = <<>>
        /\ delete_failed = <<>>
        /\ (pc = "done" /\ errorMsg = "") => exitStatus = 0
        /\ CandidatesChosen =>
              /\ pulled_ok = new_sessions
              /\ PullCalls = new_sessions
              /\ DefaultPolicy => delete_candidates = old_sessions \o new_sessions
        /\ (pc = "done" /\ Planned) =>
              /\ deleted_ok = delete_candidates
              /\ DeleteCalls = delete_candidates

\* A finished dry run that would have pulled and deleted.
C12_Witness ==
    /\ args.dry_run
    /\ DefaultPolicy
    /\ pc = "done"
    /\ Len(pulled_ok) >= 2
    /\ old_sessions # <<>>
    /\ Len(deleted_ok) >= 3

\* The naming rule as the documentation states it: exactly 8 ASCII digits,
\* one underscore, exactly 6 ASCII digits, nothing before or after.
IsValidSessionId(s) ==
    /\ Len(s) = 15
    /\ \A i \in 1..8 : s[i] \in AsciiDigits
    /\ s[9] = "_"
    /\ \A i \in 10..15 : s[i] \in AsciiDigits

\* list_device_sessions returned: main() is past line 177 without an error.
ListingSucceeded ==
    pc \in {"plan", "pull", "delete"} \/ (pc = "done" /\ errorMsg = "")

\* C13 (as claimed): when the remote listing succeeds and holds no valid
\* session identifier, the run invokes no pull and no delete and exits with
\* status 0.  An entry named with a digit outside ASCII is no valid identifier
\* (C14), yet the code plans and pulls it, so this is violated.
C13_NothingToDo_Claimed ==
    (ListingSucceeded /\ \A e \in deviceFs0 : ~IsValidSessionId(e))
        => (pc = "done" /\ exitStatus = 0 /\ calls = <<>>)

\* C14 (as claimed): the name test accepts a string if and only if it is
\* exactly 8 ASCII digits, one underscore and exactly 6 ASCII digits.  The
\* code's \d also matches decimal digits outside ASCII, so this is violated.
C14_NamingRule_Claimed ==
    pc = "named" => (accepted <=> IsValidSessionId(probe))

\* C15 (as claimed): an entry of the remote directory whose name is no valid
\* session identifier is never passed to a pull or a delete and is still on
\* the device after the run.  Violated for an entry named with a digit
\* outside ASCII (C14).
C15_InvalidEntriesInvisible_Claimed ==
    \A e \in deviceFs0 :
        ~IsValidSessionId(e) =>
            /\ e \in deviceFs
            /\ \A i \in 1..Len(calls) : calls[i][2] # e

\* C16 (as claimed): a session that ended the run before in pull_failed and
\* is still listed on the device is in new_sessions of this run, and is not
\* classified as already local (old_sessions, a deletion candidate).  A
\* failed pull that left a local directory behind makes list_local_sessions
\* report the session, so this is violated.
C16_RerunRetries_Claimed ==
    (run > 1 /\ Planned) =>
        \A s \in prev.pull_failed :
            s \in Range(device_sessions) =>
                /\ s \in Range(new_sessions)
                /\ s \notin Range(old_sessions)
                /\ s \notin Range(delete_candidates)

\* This run follows a run that had no failure, neither run is a dry run, and
\* the local directory was not touched in between.
AfterCleanRun ==
    /\ run > 1
    /\ prev.exit = 0
    /\ ~prev.dry_run
    /\ ~prev.touched
    /\ ~DryRun(args)

\* A session an earlier run pulled for real is not pulled again while its
\* local directory is there.
NeverPulledAgain ==
    \A s \in pastPulledOk : localFs0[s] = "dir" => s \notin Range(PullCalls)

\* C17 (as claimed): a session whose pull succeeded in one run is never
\* pulled again by a later run while its local subdirectory remains, and a
\* run that immediately follows a run with no failures invokes no pull and
\* exits 0.  Violated: the following run can still fail a delete.
C17_IdempotentReruns_Claimed ==
    /\ NeverPulledAgain
    /\ (AfterCleanRun /\ pc = "done" /\ errorMsg = "")
          => (PullCalls = <<>> /\ exitStatus = 0)

\* C17 (amended): a session whose pull succeeded in one run is never pulled
\* again by a later run while its local subdirectory remains, and a run that
\* immediately follows a run with no failures invokes no pull; it exits 0
\* unless one of its own preflight steps or one of its own deletes fails.
C17_IdempotentReruns ==
    /\ NeverPulledAgain
    /\ AfterCleanRun =>
          /\ PullCalls = <<>>
          /\ pc = "done" =>
                (exitStatus = 0 <=> (errorMsg = "" /\ delete_failed = <<>>))

\* A run after a failure-free run finds a session that run pulled still on
\* the device, treats it as already local, and ends with status 0.
C17_Witness ==
    /\ AfterCleanRun
    /\ pc = "done"
    /\ exitStatus = 0
    /\ \E s \in pastPulledOk : s \in Range(old_sessions) /\ localFs0[s] = "dir"

\* No element occurs twice in the sequence.
NoDuplicates(s) == \A i, j \in 1..Len(s) : s[i] = s[j] => i = j

\* Every element of `all` is in exactly one of `ok` and `failed`.
SplitsInto(all, ok, failed) ==
    /\ Range(ok) \cup Range(failed) = Range(all)
    /\ Range(ok) \cap Range(failed) = {}
    /\ Len(ok) + Len(failed) = Len(all)

RealPullStep == pc = "pull" /\ ~DryRun(args) /\ pull_i' = pull_i + 1

====
